---- MODULE Spec2Model ----
(***************************************************************************)
(* Model of components/sample-component/src/main.py: hello_world() and     *)
(* lambda_handler(event, context), run by a hosting process that owns the  *)
(* environment mapping os.environ.                                         *)
(*                                                                         *)
(* Python strings are sequences of one-character strings, so that the      *)
(* f-string of hello_world, the escaping of json.dumps and the parse of    *)
(* json.loads are computed character by character.                         *)
(***************************************************************************)
EXTENDS Integers, Sequences, FiniteSets, TLC

VARIABLES
    environ,    \* os.environ: a mapping from variable names to strings
    pc,         \* position of the current invocation of lambda_handler
    event,      \* lambda_handler's first argument
    context,    \* lambda_handler's second argument: attribute name -> value
    message,    \* lambda_handler's local variable
    stdout,     \* what the current invocation has printed, one entry per print
    result,     \* how the current invocation ended: returned value or exception
    reads,      \* number of lookups of ENVIRONMENT by the current invocation
    seen,       \* os.environ as it was when the current invocation looked it up
    prev        \* the invocation before the current one, as its caller saw it

vars == <<environ, pc, event, context, message, stdout, result, reads, seen, prev>>

(***************************************************************************)
(* Bounds and input sets.                                                  *)
(***************************************************************************)
MaxLen == 1

Alphabet == {"e", " ", "\"", "\\"}

Strings(n) == UNION {[1..k -> Alphabet] : k \in 0..n}

EnvValues == Strings(MaxLen)

FunctionNames == {<<>>, <<"e">>, <<"\"">>, <<"\\", " ">>}

(***************************************************************************)
(* Python values.                                                          *)
(***************************************************************************)
PyStr(s) == [type |-> "str", chars |-> s]

PyNone == [type |-> "NoneType", chars |-> <<>>]

PyObject == [type |-> "object", chars |-> <<>>]

EmptyMapping == [k \in {} |-> PyNone]

Environs == {EmptyMapping} \cup {[k \in {"ENVIRONMENT"} |-> v] : v \in EnvValues}

Contexts ==
    {EmptyMapping} \cup
    {[a \in {"function_name"} |-> x] :
        x \in {PyStr(f) : f \in FunctionNames} \cup {PyNone, PyObject}}

Events == {EmptyMapping, [k \in {"function_name"} |-> PyStr(<<"e">>)]}

\* dict.get(key, default)
Get(d, key, default) == IF key \in DOMAIN d THEN d[key] ELSE default

(***************************************************************************)
(* hello_world (main.py 4-7).                                              *)
(***************************************************************************)
\* hello_world reading os.environ with `or` instead of a default argument
hello_world_or ==
    LET v == Get(environ, "ENVIRONMENT", <<>>)
        environment == IF v = <<>> THEN <<"u", "n", "k", "n", "o", "w", "n">> ELSE v
    IN  <<"H", "e", "l", "l", "o", " ", "W", "o", "r", "l", "d", " ",
          "f", "r", "o", "m", " ">>
        \o environment
        \o <<" ", "e", "n", "v", "i", "r", "o", "n", "m", "e", "n", "t", "!">>

\* hello_world with a misspelt default
hello_world_default ==
    LET environment == Get(environ, "ENVIRONMENT", <<"u", "n", "k", "o", "w", "n">>)
    IN  <<"H", "e", "l", "l", "o", " ", "W", "o", "r", "l", "d", " ",
          "f", "r", "o", "m", " ">>
        \o environment
        \o <<" ", "e", "n", "v", "i", "r", "o", "n", "m", "e", "n", "t", "!">>

\* hello_world keeping the first greeting it built
hello_world_cached ==
    IF prev.set THEN prev.stdout[1]
    ELSE <<"H", "e", "l", "l", "o", " ", "W", "o", "r", "l", "d", " ",
           "f", "r", "o", "m", " ">>
         \o Get(environ, "ENVIRONMENT", <<"u", "n", "k", "n", "o", "w", "n">>)
         \o <<" ", "e", "n", "v", "i", "r", "o", "n", "m", "e", "n", "t", "!">>

hello_world ==
    LET environment == Get(environ, "ENVIRONMENT", <<"u", "n", "k", "n", "o", "w", "n">>)
    IN  <<"H", "e", "l", "l", "o", " ", "W", "o", "r", "l", "d", " ",
          "f", "r", "o", "m", " ">>
        \o environment
        \o <<" ", "e", "n", "v", "i", "r", "o", "n", "m", "e", "n", "t", "!">>

(***************************************************************************)
(* json.dumps, as lambda_handler calls it (main.py 18-21): default         *)
(* separators ", " and ": ", ensure_ascii escaping of strings, TypeError   *)
(* for a value of a type the encoder does not know.                        *)
(***************************************************************************)
RECURSIVE Escape(_)
\* the body of a JSON string: a quote and a backslash get a backslash
Escape(s) ==
    IF s = <<>> THEN <<>>
    ELSE (IF Head(s) \in {"\"", "\\"} THEN <<"\\", Head(s)>> ELSE <<Head(s)>>)
         \o Escape(Tail(s))

\* a string encoder that forgets to escape
encode_basestring_raw(s) == <<"\"">> \o s \o <<"\"">>

encode_basestring(s) == <<"\"">> \o Escape(s) \o <<"\"">>

\* an encoder that knows strings only
Serializable_str(x) == x.type = "str"

\* the types the JSON encoder accepts
Serializable(x) == x.type \in {"str", "NoneType"}

encode_value(x) ==
    IF x.type = "str" THEN encode_basestring(x.chars)
    ELSE <<"n", "u", "l", "l">>

RECURSIVE encode_items(_)
\* the members of a dict, in insertion order
encode_items(items) ==
    IF items = <<>> THEN <<>>
    ELSE encode_basestring(Head(items)[1]) \o <<":", " ">> \o encode_value(Head(items)[2])
         \o (IF Tail(items) = <<>> THEN <<>> ELSE <<",", " ">> \o encode_items(Tail(items)))

\* json.dumps of a dict given as its <<key, value>> items: the text, or the
\* exception it raises
json_dumps(items) ==
    IF \A j \in DOMAIN items : Serializable(items[j][2])
    THEN [ok |-> TRUE, text |-> <<"{">> \o encode_items(items) \o <<"}">>, exc |-> "none"]
    ELSE [ok |-> FALSE, text |-> <<>>, exc |-> "TypeError"]

(***************************************************************************)
(* json.loads, as the test reads a response body (test_main.py 39): an     *)
(* object whose members are strings or null.  A text it cannot parse       *)
(* gives ok = FALSE (json.JSONDecodeError).                                *)
(***************************************************************************)
ParseError == [ok |-> FALSE, val |-> PyNone, end |-> 0]

RECURSIVE SkipWs(_, _)
SkipWs(s, i) == IF i <= Len(s) /\ s[i] = " " THEN SkipWs(s, i + 1) ELSE i

StartsWith(s, i, w) == i + Len(w) - 1 <= Len(s) /\ SubSeq(s, i, i + Len(w) - 1) = w

RECURSIVE ScanString(_, _, _)
\* s[i] is the first character after the opening quote
ScanString(s, i, acc) ==
    IF i > Len(s) THEN ParseError
    ELSE IF s[i] = "\"" THEN [ok |-> TRUE, val |-> PyStr(acc), end |-> i + 1]
    ELSE IF s[i] = "\\"
         THEN IF i + 1 <= Len(s) /\ s[i + 1] \in {"\"", "\\", "/"}
              THEN ScanString(s, i + 2, Append(acc, s[i + 1]))
              ELSE ParseError
    ELSE ScanString(s, i + 1, Append(acc, s[i]))

ParseValue(s, i) ==
    IF i > Len(s) THEN ParseError
    ELSE IF s[i] = "\"" THEN ScanString(s, i + 1, <<>>)
    ELSE IF StartsWith(s, i, <<"n", "u", "l", "l">>)
         THEN [ok |-> TRUE, val |-> PyNone, end |-> i + 4]
    ELSE ParseError

RECURSIVE ParseMembers(_, _, _)
\* s[i] is where a member's key is expected; acc maps the keys read so far
ParseMembers(s, i, acc) ==
    IF i > Len(s) \/ s[i] # "\"" THEN [ok |-> FALSE, val |-> acc, end |-> 0]
    ELSE
    LET key == ScanString(s, i + 1, <<>>)
        colon == SkipWs(s, key.end)
        value == ParseValue(s, SkipWs(s, colon + 1))
        after == SkipWs(s, value.end)
        dict == [k \in DOMAIN acc \cup {key.val.chars} |->
                    IF k = key.val.chars THEN value.val ELSE acc[k]]
    IN  IF ~key.ok \/ colon > Len(s) \/ s[colon] # ":" THEN [ok |-> FALSE, val |-> acc, end |-> 0]
        ELSE IF ~value.ok \/ after > Len(s) THEN [ok |-> FALSE, val |-> acc, end |-> 0]
        ELSE IF s[after] = "}" THEN [ok |-> TRUE, val |-> dict, end |-> after + 1]
        ELSE IF s[after] = "," THEN ParseMembers(s, SkipWs(s, after + 1), dict)
        ELSE [ok |-> FALSE, val |-> acc, end |-> 0]

\* json.loads of a text: [ok, val], val the dict parsed (key -> value)
json_loads(s) ==
    LET start == SkipWs(s, 1)
        first == SkipWs(s, start + 1)
        obj == IF first <= Len(s) /\ s[first] = "}"
               THEN [ok |-> TRUE, val |-> EmptyMapping, end |-> first + 1]
               ELSE ParseMembers(s, first, EmptyMapping)
    IN  IF start > Len(s) \/ s[start] # "{" THEN [ok |-> FALSE, val |-> EmptyMapping]
        ELSE [ok |-> obj.ok /\ SkipWs(s, obj.end) = Len(s) + 1, val |-> obj.val]

(***************************************************************************)
(* Outcomes of an invocation.                                              *)
(***************************************************************************)
NoResult == [kind |-> "none", value |-> EmptyMapping, exc |-> "none"]

Return(v) == [kind |-> "return", value |-> v, exc |-> "none"]

Raise(e) == [kind |-> "raise", value |-> EmptyMapping, exc |-> e]

Unread == [read |-> FALSE, env |-> EmptyMapping]

NoPrev ==
    [set |-> FALSE, event |-> EmptyMapping, environ |-> EmptyMapping,
     context |-> EmptyMapping, result |-> NoResult, stdout |-> <<>>]

MessageKey == <<"m", "e", "s", "s", "a", "g", "e">>

FunctionNameKey == <<"f", "u", "n", "c", "t", "i", "o", "n", "_", "n", "a", "m", "e">>

(***************************************************************************)
(* State machine: the host sets the environment and invokes the handler;   *)
(* an invocation runs main.py 13, 14 and 16-22 in order.                   *)
(***************************************************************************)
Init ==
    /\ environ \in Environs
    /\ pc = "idle"
    /\ event = EmptyMapping
    /\ context = EmptyMapping
    /\ message = <<>>
    /\ stdout = <<>>
    /\ result = NoResult
    /\ reads = 0
    /\ seen = Unread
    /\ prev = NoPrev

\* the host calls lambda_handler(e, c)
Invoke(e, c) ==
    /\ pc = "idle"
    /\ pc' = "hello"
    /\ event' = e
    /\ context' = c
    /\ UNCHANGED <<environ, message, stdout, result, reads, seen, prev>>

\* message = hello_world()
CallHelloWorld ==
    /\ pc = "hello"
    /\ message' = hello_world
    /\ reads' = reads + 1
    /\ seen' = [read |-> TRUE, env |-> environ]
    /\ pc' = "print"
    /\ UNCHANGED <<environ, event, context, stdout, result, prev>>

\* print(message) moved below the read of context.function_name
PrintMessage_late ==
    /\ pc = "print"
    /\ IF "function_name" \notin DOMAIN context
       THEN /\ result' = Raise("AttributeError")
            /\ pc' = "done"
            /\ UNCHANGED stdout
       ELSE /\ stdout' = Append(stdout, message)
            /\ pc' = "return"
            /\ UNCHANGED result
    /\ UNCHANGED <<environ, event, context, message, reads, seen, prev>>

\* print(message)
PrintMessage ==
    /\ pc = "print"
    /\ stdout' = Append(stdout, message)
    /\ pc' = "return"
    /\ UNCHANGED <<environ, event, context, message, result, reads, seen, prev>>

\* the dict of main.py 16-22 once context.function_name has been read
response(msg, function_name) ==
    LET body == json_dumps(<< <<MessageKey, PyStr(msg)>>,
                              <<FunctionNameKey, function_name>> >>)
    IN  IF body.ok THEN Return([statusCode |-> 200, body |-> body.text])
        ELSE Raise(body.exc)

\* the return statement with getattr(context, 'function_name', None)
return_statement_getattr(msg, ctx) == response(msg, Get(ctx, "function_name", PyNone))

\* the return statement preferring a function_name given in the event
return_statement_event(msg, ctx) ==
    IF "function_name" \in DOMAIN event THEN response(msg, event["function_name"])
    ELSE IF "function_name" \notin DOMAIN ctx THEN Raise("AttributeError")
    ELSE response(msg, ctx["function_name"])

\* the return statement calling hello_world() again for the body
return_statement_reread(msg, ctx) ==
    IF "function_name" \notin DOMAIN ctx THEN Raise("AttributeError")
    ELSE response(hello_world, ctx["function_name"])

\* the outcome of the return statement: reading context.function_name raises
\* AttributeError when the attribute is missing
return_statement(msg, ctx) ==
    IF "function_name" \notin DOMAIN ctx THEN Raise("AttributeError")
    ELSE response(msg, ctx["function_name"])

\* return {'statusCode': 200, 'body': json.dumps({...})}
ReturnResponse ==
    /\ pc = "return"
    /\ result' = return_statement(message, context)
    /\ pc' = "done"
    /\ UNCHANGED <<environ, event, context, message, stdout, reads, seen, prev>>

\* the invocation is over and its locals are gone
Discard ==
    /\ event' = EmptyMapping
    /\ context' = EmptyMapping
    /\ message' = <<>>
    /\ stdout' = <<>>
    /\ result' = NoResult
    /\ reads' = 0
    /\ seen' = Unread

\* the host takes the outcome
Finish ==
    /\ pc = "done"
    /\ pc' = "idle"
    /\ Discard
    /\ UNCHANGED <<environ, prev>>

\* the host takes the outcome and keeps a record of the invocation
FinishRecorded ==
    /\ pc = "done"
    /\ pc' = "idle"
    /\ prev' = [set |-> TRUE, event |-> event, environ |-> seen.env,
                context |-> context, result |-> result, stdout |-> stdout]
    /\ Discard
    /\ UNCHANGED environ

\* the hosting process sets ENVIRONMENT, at any moment
SetEnvironment(v) ==
    /\ environ' = [k \in {"ENVIRONMENT"} |-> v]
    /\ environ' # environ
    /\ UNCHANGED <<pc, event, context, message, stdout, result, reads, seen, prev>>

\* the hosting process removes ENVIRONMENT, at any moment
UnsetEnvironment ==
    /\ environ # EmptyMapping
    /\ environ' = EmptyMapping
    /\ UNCHANGED <<pc, event, context, message, stdout, result, reads, seen, prev>>

\* the hosting process sets or removes ENVIRONMENT between two invocations
ConfigureEnvironment(env) ==
    /\ pc = "idle"
    /\ environ' = env
    /\ environ' # environ
    /\ UNCHANGED <<pc, event, context, message, stdout, result, reads, seen, prev>>

Next ==
    \/ \E e \in Events, c \in Contexts : Invoke(e, c)
    \/ CallHelloWorld
    \/ PrintMessage
    \/ ReturnResponse
    \/ Finish
    \/ \E v \in EnvValues : SetEnvironment(v)
    \/ UnsetEnvironment

Spec == Init /\ [][Next]_vars

\* invocations one after another, the environment set before each (spec 5)
NextSeq ==
    \/ \E e \in Events, c \in Contexts : Invoke(e, c)
    \/ CallHelloWorld
    \/ PrintMessage
    \/ ReturnResponse
    \/ FinishRecorded
    \/ \E env \in Environs : ConfigureEnvironment(env)

SpecSeq == Init /\ [][NextSeq]_vars

(***************************************************************************)
(* Properties.                                                             *)
(***************************************************************************)
\* "Hello World from " + v + " environment!"
Greeting(v) ==
    <<"H", "e", "l", "l", "o", " ", "W", "o", "r", "l", "d", " ", "f", "r", "o", "m", " ">>
    \o v \o <<" ", "e", "n", "v", "i", "r", "o", "n", "m", "e", "n", "t", "!">>

Unknown == <<"u", "n", "k", "n", "o", "w", "n">>

IsSet(env) == "ENVIRONMENT" \in DOMAIN env

HasFunctionName == "function_name" \in DOMAIN context

Returned == pc = "done" /\ result.kind = "return"

Raised == pc = "done" /\ result.kind = "raise"

\* the returned body, parsed
Parsed == json_loads(result.value.body)

\* C1: whenever ENVIRONMENT was set to v when hello_world looked it up, v empty
\* or containing spaces, quotes or backslashes included, the string it returned
\* is exactly "Hello World from " + v + " environment!".
C1_ExactGreeting ==
    (seen.read /\ IsSet(seen.env)) => message = Greeting(seen.env["ENVIRONMENT"])

\* ENVIRONMENT was set to the empty string and the greeting has the empty value in it
C1_Witness ==
    /\ seen.read
    /\ IsSet(seen.env)
    /\ seen.env["ENVIRONMENT"] = <<>>
    /\ message = <<"H", "e", "l", "l", "o", " ", "W", "o", "r", "l", "d", " ",
                   "f", "r", "o", "m", " ", " ",
                   "e", "n", "v", "i", "r", "o", "n", "m", "e", "n", "t", "!">>

\* C2 as stated: whenever ENVIRONMENT was absent at the lookup, hello_world
\* returned "Hello World from unknown environment!", and the handler, given any
\* context that has a function_name, returns a body whose message is that string.
C2_AsStated ==
    (seen.read /\ ~IsSet(seen.env)) =>
        /\ message = Greeting(Unknown)
        /\ (pc = "done" /\ HasFunctionName) =>
              /\ result.kind = "return"
              /\ Parsed.ok
              /\ MessageKey \in DOMAIN Parsed.val
              /\ Parsed.val[MessageKey] = PyStr(Greeting(Unknown))

\* C2, amended: whenever ENVIRONMENT was absent at the lookup, hello_world
\* returned "Hello World from unknown environment!", and the handler, given any
\* context whose function_name json.dumps can serialise, returns a body whose
\* message is that string.
C2_DefaultGreeting ==
    (seen.read /\ ~IsSet(seen.env)) =>
        /\ message = Greeting(Unknown)
        /\ (pc = "done" /\ HasFunctionName /\ context["function_name"].type \in {"str", "NoneType"}) =>
              /\ result.kind = "return"
              /\ Parsed.ok
              /\ MessageKey \in DOMAIN Parsed.val
              /\ Parsed.val[MessageKey] = PyStr(Greeting(Unknown))

\* ENVIRONMENT was absent and the handler returned a body
C2_Witness ==
    /\ Returned
    /\ ~IsSet(seen.env)
    /\ HasFunctionName
    /\ Parsed.ok

\* C3: for every environment and every context whose function_name is a string
\* f, the handler returns a response with exactly the fields statusCode and
\* body, statusCode 200, and body parses as JSON to an object with exactly the
\* fields message, the greeting for the environment looked up, and
\* function_name, equal to f.
C3_ResponseShape ==
    (pc = "done" /\ HasFunctionName /\ context["function_name"].type = "str") =>
        /\ result.kind = "return"
        /\ DOMAIN result.value = {"statusCode", "body"}
        /\ result.value.statusCode = 200
        /\ Parsed.ok
        /\ DOMAIN Parsed.val = {MessageKey, FunctionNameKey}
        /\ Parsed.val[MessageKey] = PyStr(Greeting(Get(seen.env, "ENVIRONMENT", Unknown)))
        /\ Parsed.val[FunctionNameKey] = context["function_name"]

\* a response whose message and function_name both need escaping
C3_Witness ==
    /\ Returned
    /\ IsSet(seen.env)
    /\ seen.env["ENVIRONMENT"] = <<"\"">>
    /\ context["function_name"] = PyStr(<<"\\", " ">>)
    /\ Parsed.ok

\* C4: a context without function_name ends the invocation in an
\* AttributeError, as raised, and no response (no statusCode, no body) exists
\* for it, whatever the event and the environment.
C4_MissingAttribute ==
    (pc = "done" /\ ~HasFunctionName) =>
        /\ result.kind = "raise"
        /\ result.exc = "AttributeError"
        /\ DOMAIN result.value = {}

\* an invocation with a non-empty event and no function_name has ended
C4_Witness ==
    /\ pc = "done"
    /\ ~HasFunctionName
    /\ event # EmptyMapping
    /\ IsSet(seen.env)
    /\ result.kind = "raise"

\* C5 as stated: every context that has a function_name, whatever its value,
\* makes the handler return a response and raise nothing.
C5_AsStated == (pc = "done" /\ HasFunctionName) => result.kind = "return"

\* C5, amended: every context that has a function_name json.dumps can
\* serialise (a string, None) makes the handler return a response and raise
\* nothing; an invocation that raises has no function_name or one that
\* json.dumps rejects.
C5_OnlyFailureModes ==
    /\ (pc = "done" /\ HasFunctionName /\ context["function_name"].type \in {"str", "NoneType"})
          => result.kind = "return"
    /\ Raised => (~HasFunctionName \/ context["function_name"].type = "object")

\* a function_name that is None and a response returned
C5_Witness ==
    /\ Returned
    /\ HasFunctionName
    /\ context["function_name"] = PyNone
    /\ Parsed.ok
    /\ Parsed.val[FunctionNameKey] = PyNone

\* the current invocation has ended and an earlier one had the same
\* environment at its lookup and the same context
SameInputsAsPrev ==
    /\ pc = "done"
    /\ prev.set
    /\ prev.environ = seen.env
    /\ prev.context = context

SameOutcomeAsPrev == prev.result = result /\ prev.stdout = stdout

\* C6: two invocations with the same environment and the same context and
\* different events end alike: the same response or the same error, and the
\* same line printed.
C6_EventIgnored == (SameInputsAsPrev /\ prev.event # event) => SameOutcomeAsPrev

\* two invocations that differ in the event alone, both returning a response
C6_Witness ==
    /\ SameInputsAsPrev
    /\ prev.event # event
    /\ result.kind = "return"
    /\ prev.result.kind = "return"

\* a step of the handler leaves os.environ as it is
C7_Frame == pc' # pc => environ' = environ

\* an invocation that follows others prints the greeting of the environment it
\* finds, and ends as an earlier one with the same environment and context did
C7_HistoryFree ==
    /\ (pc = "done" /\ prev.set) =>
          stdout = <<Greeting(Get(seen.env, "ENVIRONMENT", Unknown))>>
    /\ SameInputsAsPrev => SameOutcomeAsPrev

\* C7: the handler never changes the environment mapping, so it is after any
\* sequence of invocations what it was before, and the outcome of an invocation
\* follows from ENVIRONMENT at its call and from its context, whatever
\* invocations came before it.
C7_NoStateKept == [][C7_Frame]_vars /\ []C7_HistoryFree

\* an invocation after a failed one that had another environment and context
C7_Witness ==
    /\ pc = "done"
    /\ prev.set
    /\ prev.result.kind = "raise"
    /\ prev.environ # seen.env
    /\ result.kind = "return"
    /\ environ = seen.env

C9_LoggedBeforeError ==
    [][(result.kind # "raise" /\ result'.kind = "raise" /\ result'.exc = "AttributeError")
        => /\ stdout = <<Greeting(Get(seen.env, "ENVIRONMENT", Unknown))>>
           /\ stdout' = stdout
           /\ result'.value = EmptyMapping]_vars

\* a failed invocation with its line printed
C9_Witness ==
    /\ Raised
    /\ ~HasFunctionName
    /\ result.exc = "AttributeError"
    /\ stdout = <<message>>
    /\ message = Greeting(Unknown)

====
